---- MODULE Spec2Model ----
(***************************************************************************)
(* Squirrel memory service: the JSON-RPC transport (sqrl/ipc/server.py),   *)
(* the SQLite storage layer (sqrl/storage.py), the project summary cache   *)
(* (sqrl/cache.py) and the process_episode handler (sqrl/ipc/handlers.py). *)
(*                                                                         *)
(* Strings that the code builds or inspects (exception messages, error     *)
(* messages) are sequences of tokens; "x in s" of Python is the operator   *)
(* In(x, s).  JSON values that the code only passes through (ids) are the  *)
(* strings of their JSON text; a member that is missing is "absent".       *)
(***************************************************************************)
EXTENDS Integers, Sequences, FiniteSets, TLC

(***************************************************************************)
(* Bounds of the model.                                                    *)
(***************************************************************************)
\* request lines the clients send, all connections together
MaxLines == 2

\* the connections a client may open
Conns == {"c1", "c2"}

\* storage calls (add, delete) made in one run, all callers together
MaxOps == 3

\* the callers whose storage calls may overlap
Callers == {"a", "b"}

\* events of one episode
MaxEvents == 5

\* process_episode calls made in one run
MaxEpisodes == 2

\* the texts, categories and subcategories the callers pass
Texts == {"t1", "t2"}
Categories == {"c1", "c2"}
Subcategories == {"main", "alt"}

(***************************************************************************)
(* server.py: error codes                                                  *)
(***************************************************************************)
PARSE_ERROR == -32700
INVALID_REQUEST == -32600
METHOD_NOT_FOUND == -32601
INVALID_PARAMS == -32602
INTERNAL_ERROR == -32603

\* handlers.py create_handlers: the method names bound at start-up
Registered == {"process_episode"}

VARIABLES
    status,     \* connection -> "idle" | "open" | "closed" (server side)
    inbox,      \* connection -> lines sent by the client and not yet read
    eof,        \* connection -> the client has closed its end
    gone,       \* connection -> "no", or, once the client has closed its socket,
                \* where the server was then ("read" | "handler"); a write to a
                \* closed socket raises BrokenPipeError
    pc,         \* connection -> "read" (at readline) | "handler" (awaiting the handler)
    cur,        \* connection -> the request whose handler is in flight
    out,        \* connection -> responses written and flushed, oldest first
    consumed,   \* connection -> non-empty lines read so far, oldest first (history)
    outcomes,   \* connection -> what each finished handler call did: [k, o], the call
                \* for the k-th consumed line ended with outcome o (history)
    iofault,    \* connection -> a socket read or write raised (history)
    listening,  \* the listener accepts connections
    sent        \* number of lines sent so far, all connections together

ipcVars == <<status, inbox, eof, gone, pc, cur, out, consumed, outcomes, iofault, listening,
            sent>>

VARIABLES
    styles,     \* rows of user_styles, in rowid (insertion) order
    memories,   \* rows of project_memories of one project, in rowid order
    nextId,     \* the ids _new_id has handed out are 1..nextId-1
    clock,      \* the time _now_iso returns next
    calls,      \* caller -> its add call in progress, or IdleCall
    log,        \* the storage calls of the callers that have returned, oldest
                \* first (history); the adds of process_episode are in trace
    nops        \* number of storage calls started

storeVars == <<styles, memories, nextId, clock, calls, log, nops>>

VARIABLES
    lastRead    \* a caller's latest get_all call: the store, its table when the call
                \* ran, and the rows the call returned (history)

readVars == <<lastRead>>

VARIABLES
    cacheFile,  \* ~/.sqrl/project_summaries.json: what it holds
    cacheCall   \* the latest call of a cache function by a caller other than
                \* process_episode, whose cache calls are in trace (history)

cacheVars == <<cacheFile, cacheCall>>

VARIABLES
    window      \* the latest _get_ai_turns call: its arguments and its result

windowVars == <<window>>

VARIABLES
    ep,         \* the process_episode call in progress: where it waits and its locals
    trace,      \* what that call has done outside itself so far, oldest first:
                \* capability calls, store reads and writes, cache calls (history)
    ended,      \* how the latest finished process_episode call ended
    inputs,     \* what the latest call was given: the events of its request and
                \* the answers of the capabilities so far (history)
    neps,       \* number of process_episode calls started
    synced      \* the sync_user_styles calls of the latest process_episode call:
                \* what each met at its targets and what it answered (history)

episodeVars == <<ep, trace, ended, inputs, neps, synced>>

vars == <<ipcVars, storeVars, readVars, cacheVars, windowVars, episodeVars>>

\* what the steps of one component leave alone
outsideIPC == <<storeVars, readVars, cacheVars, windowVars, episodeVars>>
outsideStore == <<ipcVars, readVars, cacheVars, windowVars, episodeVars>>
outsideRead == <<ipcVars, storeVars, cacheVars, windowVars, episodeVars>>
outsideCache == <<ipcVars, storeVars, readVars, windowVars, episodeVars>>
outsideWindow == <<ipcVars, storeVars, readVars, cacheVars, episodeVars>>
outsideEpisode == <<ipcVars, readVars, windowVars, calls, log, nops, cacheCall>>

(***************************************************************************)
(* Request lines.  kind: "empty" (nothing left after strip), "malformed"   *)
(* (json.loads raises), "value" (a JSON value that is not an object, of    *)
(* type jtype), "object".  For an object: jsonrpc is the member's value or *)
(* "absent"; mtype says what the 'method' member is; params says what the  *)
(* 'params' member is; id is the JSON text of the 'id' member.             *)
(***************************************************************************)
Line(kind, jtype, jsonrpc, mtype, method, params, id) ==
    [kind |-> kind, jtype |-> jtype, jsonrpc |-> jsonrpc, mtype |-> mtype,
     method |-> method, params |-> params, id |-> id]

EmptyLine == Line("empty", "-", "-", "-", "-", "-", "-")
MalformedLine == Line("malformed", "-", "-", "-", "-", "-", "-")
ValueLines == {Line("value", t, "-", "-", "-", "-", "-") : t \in {"array"}}

\* envelopes that are valid, with a registered or an unregistered method
GoodObjects ==
    {Line("object", "object", "2.0", "string", "process_episode", "object", i) :
        i \in {"absent", "7"}}
    \cup {Line("object", "object", "2.0", "string", "nope", "absent", i) :
            i \in {"absent", "7"}}

\* envelopes with one member wrong
BadObjects ==
    {Line("object", "object", "1.0", "string", "process_episode", "object", "7"),
     Line("object", "object", "2.0", "absent", "-", "object", "7"),
     Line("object", "object", "2.0", "string", "process_episode", "array", "7")}

Lines == {EmptyLine, MalformedLine} \cup ValueLines \cup GoodObjects \cup BadObjects

\* Python's "sub in s" on the token model of strings
In(sub, s) == \E i \in 1..Len(s) : s[i] = sub

(***************************************************************************)
(* RPCRequest.from_json: the request, or the exception it raises.          *)
(***************************************************************************)
Parsed(exc, msg, method, params, id) ==
    [exc |-> exc, msg |-> msg, method |-> method, params |-> params, id |-> id]

from_json(line) ==
    IF line.kind = "malformed"
    THEN Parsed("ValueError", <<"Parse error", ": ", "decoder detail">>, "-", "-", "-")
    ELSE IF line.kind # "object"
    THEN \* obj.get on a list, str, number, bool or None
         Parsed("AttributeError", <<"object has no attribute 'get'">>, "-", "-", "-")
    ELSE IF line.jsonrpc # "2.0"
    THEN Parsed("ValueError", <<"Invalid JSON-RPC version">>, "-", "-", "-")
    ELSE IF line.mtype # "string"
    THEN Parsed("ValueError", <<"Missing or invalid method">>, "-", "-", "-")
    ELSE IF line.params \notin {"object", "absent"}
    THEN Parsed("ValueError", <<"Params must be object">>, "-", "-", "-")
    ELSE Parsed("none", <<>>, line.method, "object", line.id)

\* json.dumps of an id: None (also what obj.get gives for a missing id) is null
IdJson(id) == IF id \in {"absent", "-"} THEN "null" ELSE id

Response(error, code, message, id) ==
    [error |-> error, code |-> code, message |-> message, id |-> IdJson(id)]

make_response(result, request_id) == Response(FALSE, 0, <<result>>, request_id)

make_error(code, message, request_id) == Response(TRUE, code, message, request_id)

(***************************************************************************)
(* What a handler call does: it returns, or raises an exception that has a *)
(* code attribute, or raises one that has none.                            *)
(***************************************************************************)
Outcome(type, code, msg) == [type |-> type, code |-> code, msg |-> msg]

Outcomes ==
    {Outcome("return", 0, "a result")}
    \cup {Outcome("raise_code", k, "app failure") : k \in {INVALID_PARAMS}}
    \cup {Outcome("raise", 0, "Invalid params: bad field")}

\* a slip: every ValueError of from_json reported as Invalid Request
ValueErrorResponse_AlwaysInvalid(p) == make_error(INVALID_REQUEST, p.msg, "absent")

\* _handle_request, lines 150-154: from_json raised ValueError; request_id is
\* still the None it was initialised with
ValueErrorResponse(p) ==
    make_error(IF In("Parse error", p.msg) THEN PARSE_ERROR ELSE INVALID_REQUEST,
               p.msg, "absent")

\* _handle_request, lines 124-129
MethodNotFoundResponse(p) ==
    make_error(METHOD_NOT_FOUND, <<"Method not found", ": ", p.method>>, p.id)

\* a slip: the error of a failed handler built without the request's id
HandlerResponse_DropsId(p, o) ==
    IF o.type = "return" THEN make_response(o.msg, p.id)
    ELSE IF o.type = "raise_code" THEN make_error(o.code, <<o.msg>>, "absent")
    ELSE make_error(INTERNAL_ERROR, <<"Internal error", ": ", o.msg>>, "absent")

\* a slip: no hasattr(e, "code") branch, every failure is an Internal Error
HandlerResponse_IgnoresCode(p, o) ==
    IF o.type = "return" THEN make_response(o.msg, p.id)
    ELSE make_error(INTERNAL_ERROR, <<"Internal error", ": ", o.msg>>, p.id)

\* _handle_request, lines 131-148
HandlerResponse(p, o) ==
    IF o.type = "return" THEN make_response(o.msg, p.id)
    ELSE IF o.type = "raise_code" THEN make_error(o.code, <<o.msg>>, p.id)
    ELSE make_error(INTERNAL_ERROR, <<"Internal error", ": ", o.msg>>, p.id)

\* a slip: the exception of one connection's task takes every connection down
OnException_ClosesAll(c) == [d \in Conns |-> "closed"]

\* _handle_client, lines 179-188: an exception leaves the loop and closes this
\* connection's writer; nothing else is touched
OnException(c) == [status EXCEPT ![c] = "closed"]

NoRequest == Parsed("none", <<>>, "-", "-", "-")

InitIPC ==
    /\ status = [c \in Conns |-> "idle"]
    /\ inbox = [c \in Conns |-> <<>>]
    /\ eof = [c \in Conns |-> FALSE]
    /\ gone = [c \in Conns |-> "no"]
    /\ pc = [c \in Conns |-> "read"]
    /\ cur = [c \in Conns |-> NoRequest]
    /\ out = [c \in Conns |-> <<>>]
    /\ consumed = [c \in Conns |-> <<>>]
    /\ outcomes = [c \in Conns |-> <<>>]
    /\ iofault = [c \in Conns |-> FALSE]
    /\ listening = TRUE
    /\ sent = 0

\* asyncio.start_unix_server: an accepted connection gets its own _handle_client task
Accept(c) ==
    /\ listening
    /\ status[c] = "idle"
    /\ status' = [status EXCEPT ![c] = "open"]
    /\ UNCHANGED <<inbox, eof, pc, cur, out, consumed, outcomes, iofault, listening, sent, gone>>
    /\ UNCHANGED outsideIPC

\* the client writes one line
ClientSend(c, line) ==
    /\ status[c] # "idle"
    /\ ~eof[c]
    /\ sent < MaxLines
    /\ inbox' = [inbox EXCEPT ![c] = Append(@, line)]
    /\ sent' = sent + 1
    /\ UNCHANGED <<status, eof, pc, cur, out, consumed, outcomes, iofault, listening, gone>>
    /\ UNCHANGED outsideIPC

\* the client closes its end: readline gives what is buffered and then b"";
\* a later write may go through (the client still reads) or raise
ClientClose(c) ==
    /\ status[c] # "idle"
    /\ ~eof[c]
    /\ eof' = [eof EXCEPT ![c] = TRUE]
    /\ UNCHANGED <<status, inbox, pc, cur, out, consumed, outcomes, iofault, listening, sent, gone>>
    /\ UNCHANGED outsideIPC

\* a slip: the close of the client's socket cancels the handler in flight
ClientDisconnect_CancelsHandler(c) ==
    /\ status[c] # "idle"
    /\ ~eof[c]
    /\ eof' = [eof EXCEPT ![c] = TRUE]
    /\ gone' = [gone EXCEPT ![c] = pc[c]]
    /\ pc' = [pc EXCEPT ![c] = "read"]
    /\ cur' = [cur EXCEPT ![c] = NoRequest]
    /\ UNCHANGED <<status, inbox, out, consumed, outcomes, iofault, listening, sent>>
    /\ UNCHANGED outsideIPC

\* the client closes its socket: as ClientClose, and every later write raises
ClientDisconnect(c) ==
    /\ status[c] # "idle"
    /\ ~eof[c]
    /\ eof' = [eof EXCEPT ![c] = TRUE]
    /\ gone' = [gone EXCEPT ![c] = pc[c]]
    /\ UNCHANGED <<status, inbox, pc, cur, out, consumed, outcomes, iofault, listening, sent>>
    /\ UNCHANGED outsideIPC

\* writer.write + drain of one response: it is flushed, or the socket raises;
\* it always raises once the client has closed the socket
Write(c, resp, wr) ==
    IF wr = "ok" /\ gone[c] = "no"
    THEN /\ out' = [out EXCEPT ![c] = Append(@, resp)]
         /\ status' = status
         /\ iofault' = iofault
    ELSE /\ out' = out
         /\ status' = OnException(c)
         /\ iofault' = [iofault EXCEPT ![c] = TRUE]

\* _handle_client, lines 165-177, up to the point where the handler is awaited
ReadLine(c, wr) ==
    /\ status[c] = "open"
    /\ pc[c] = "read"
    /\ inbox[c] # <<>>
    /\ LET line == Head(inbox[c])
           p == from_json(line)
       IN /\ inbox' = [inbox EXCEPT ![c] = Tail(@)]
          /\ IF line.kind = "empty"
             THEN UNCHANGED <<status, pc, cur, out, consumed, iofault>>
             ELSE /\ consumed' = [consumed EXCEPT ![c] = Append(@, line)]
                  /\ IF p.exc = "AttributeError"
                     THEN /\ status' = OnException(c)
                          /\ UNCHANGED <<pc, cur, out, iofault>>
                     ELSE IF p.exc = "ValueError"
                     THEN /\ Write(c, ValueErrorResponse(p), wr)
                          /\ UNCHANGED <<pc, cur>>
                     ELSE IF p.method \notin Registered
                     THEN /\ Write(c, MethodNotFoundResponse(p), wr)
                          /\ UNCHANGED <<pc, cur>>
                     ELSE /\ pc' = [pc EXCEPT ![c] = "handler"]
                          /\ cur' = [cur EXCEPT ![c] = p]
                          /\ UNCHANGED <<status, out, iofault>>
    /\ UNCHANGED <<eof, outcomes, listening, sent, gone>>
    /\ UNCHANGED outsideIPC

\* the awaited handler finishes; the response is written
HandlerDone(c, o, wr) ==
    /\ status[c] = "open"
    /\ pc[c] = "handler"
    /\ Write(c, HandlerResponse(cur[c], o), wr)
    /\ pc' = [pc EXCEPT ![c] = "read"]
    /\ cur' = [cur EXCEPT ![c] = NoRequest]
    /\ outcomes' = [outcomes EXCEPT ![c] = Append(@, [k |-> Len(consumed[c]), o |-> o])]
    /\ UNCHANGED <<inbox, eof, consumed, listening, sent, gone>>
    /\ UNCHANGED outsideIPC

\* readline returns b"" at end of stream: the loop breaks, the writer is closed
ReadEOF(c) ==
    /\ status[c] = "open"
    /\ pc[c] = "read"
    /\ inbox[c] = <<>>
    /\ eof[c]
    /\ status' = [status EXCEPT ![c] = "closed"]
    /\ UNCHANGED <<inbox, eof, pc, cur, out, consumed, outcomes, iofault, listening, sent, gone>>
    /\ UNCHANGED outsideIPC

\* readline raises (connection reset)
ReadFault(c) ==
    /\ status[c] = "open"
    /\ pc[c] = "read"
    /\ status' = OnException(c)
    /\ iofault' = [iofault EXCEPT ![c] = TRUE]
    /\ UNCHANGED <<inbox, eof, pc, cur, out, consumed, outcomes, listening, sent, gone>>
    /\ UNCHANGED outsideIPC

NextIPC ==
    \/ \E c \in Conns : Accept(c)
    \/ \E c \in Conns, line \in Lines : ClientSend(c, line)
    \/ \E c \in Conns : ClientClose(c)
    \/ \E c \in Conns, wr \in {"ok", "fail"} : ReadLine(c, wr)
    \/ \E c \in Conns, o \in Outcomes, wr \in {"ok", "fail"} : HandlerDone(c, o, wr)
    \/ \E c \in Conns : ReadEOF(c)
    \/ \E c \in Conns : ReadFault(c)

\* the lines of the clients that disconnect: a request that starts a
\* handler, a line that does not, an empty line
DisconnectLines ==
    {EmptyLine, MalformedLine} \cup
    {l \in GoodObjects : l.method \in Registered /\ l.id # "absent"}

\* the transport with clients that close their socket at any moment
NextDisconnect ==
    \/ \E c \in Conns : Accept(c)
    \/ \E c \in Conns, line \in DisconnectLines : ClientSend(c, line)
    \/ \E c \in Conns : ClientClose(c)
    \/ \E c \in Conns : ClientDisconnect(c)
    \/ \E c \in Conns, wr \in {"ok", "fail"} : ReadLine(c, wr)
    \/ \E c \in Conns, o \in Outcomes, wr \in {"ok", "fail"} : HandlerDone(c, o, wr)
    \/ \E c \in Conns : ReadEOF(c)
    \/ \E c \in Conns : ReadFault(c)



(***************************************************************************)
(* storage.py.  A row is a record; a table is the sequence of its rows in  *)
(* rowid order.  Rows of user_styles carry "-" for the two columns they do *)
(* not have.  Ids are 1, 2, ...; 0 stands for "no row" (fetchone's None).  *)
(***************************************************************************)
Row(id, category, subcategory, text, use_count, created_at, updated_at) ==
    [id |-> id, category |-> category, subcategory |-> subcategory, text |-> text,
     use_count |-> use_count, created_at |-> created_at, updated_at |-> updated_at]

NoRow == Row(0, "-", "-", "-", 0, 0, 0)

\* the unique key of a row: text for a style, category + text for a memory
Key(category, text) == [category |-> category, text |-> text]
KeyOf(r) == Key(r.category, r.text)

\* SELECT id, use_count ... WHERE <key> ... fetchone(): the first matching row
SelectByKey(table, k) ==
    LET hits == {i \in 1..Len(table) : KeyOf(table[i]) = k}
    IN IF hits = {} THEN NoRow
       ELSE table[CHOOSE i \in hits : \A j \in hits : i <= j]

\* UPDATE ... SET use_count = ?, updated_at = ? WHERE id = ?
UpdateCount(table, id, new_count, now) ==
    [i \in 1..Len(table) |->
        IF table[i].id = id
        THEN [table[i] EXCEPT !.use_count = new_count, !.updated_at = now]
        ELSE table[i]]

\* INSERT INTO ... VALUES (id, ..., 1, now, now)
Insert(table, r) == Append(table, r)

\* a slip: the WHERE clause compares with <= and takes the older rows along
DeleteById_AndOlder(table, id) == LET keep(r) == r.id > id IN SelectSeq(table, keep)

\* DELETE ... WHERE id = ?
DeleteById(table, id) == LET keep(r) == r.id # id IN SelectSeq(table, keep)

\* a slip: the composite key of project_memories looked up by text alone
MemoryKey_TextOnly(category, text) == Key("-", text)

\* the lookup key of UserStyleStorage.add (line 101) and of
\* ProjectMemoryStorage.add (line 178)
StyleKey(text) == Key("-", text)
MemoryKey(category, text) == Key(category, text)

\* user_styles.text is UNIQUE (line 19): an INSERT of a text that is stored raises
\* sqlite3.IntegrityError; project_memories has no such constraint
StyleInsertConflicts(table, text) == \E i \in 1..Len(table) : table[i].text = text

(***************************************************************************)
(* An add call, cut at the points where another connection's statement can *)
(* come in between: now = _now_iso(); the SELECT, which runs outside any   *)
(* transaction; then the UPDATE or INSERT, which opens the transaction and *)
(* takes the database's write lock until the commit at the end of the with *)
(* block, so that statement and commit are one step.                       *)
(***************************************************************************)
Call(op, stage, category, subcategory, text, now, row) ==
    [op |-> op, stage |-> stage, category |-> category, subcategory |-> subcategory,
     text |-> text, now |-> now, row |-> row]

IdleCall == Call("idle", "-", "-", "-", "-", 0, NoRow)

\* one returned call: what was called with which key, whether it returned
\* (ok) or raised, the record it returned; for delete the id passed (arg) and
\* the id it deleted, 0 when delete returned False
LogEntry(store, op, k, arg, ok, ret, removed) ==
    [store |-> store, op |-> op, key |-> k, arg |-> arg, ok |-> ok, ret |-> ret,
     removed |-> removed]

\* a slip: the update branch counts down instead of up
AddWrite_CountsDown(table, row, category, subcategory, text, now, newid) ==
    IF row.id # 0
    THEN UpdateCount(table, row.id, row.use_count - 1, now)
    ELSE Insert(table, Row(newid, category, subcategory, text, 1, now, now))

\* the table after the write of an add whose SELECT gave row; newid is the
\* uuid4 of the insert branch
AddWrite(table, row, category, subcategory, text, now, newid) ==
    IF row.id # 0
    THEN UpdateCount(table, row.id, row.use_count + 1, now)
    ELSE Insert(table, Row(newid, category, subcategory, text, 1, now, now))

\* the record add returns
AddReturn(row, category, subcategory, text, now, newid) ==
    IF row.id # 0
    THEN Row(row.id, category, subcategory, text, row.use_count + 1, now, now)
    ELSE Row(newid, category, subcategory, text, 1, now, now)

\* a slip: get_all without its ORDER BY clause
get_all_Unordered(table) == table

\* a slip: the index walked so that rows of equal count come newest first
IndexOrder_TiesReversed(table) ==
    CHOOSE p \in [1..Len(table) -> 1..Len(table)] :
        /\ \A i, j \in 1..Len(table) : i # j => p[i] # p[j]
        /\ \A i, j \in 1..Len(table) : i < j =>
              \/ table[p[i]].use_count > table[p[j]].use_count
              \/ table[p[i]].use_count = table[p[j]].use_count /\ p[i] > p[j]

\* the positions of a table in the order of idx_*_use_count, the index on
\* (use_count DESC) whose entries end in the rowid: higher counts first, equal
\* counts in rowid order
IndexOrder(table) ==
    CHOOSE p \in [1..Len(table) -> 1..Len(table)] :
        /\ \A i, j \in 1..Len(table) : i # j => p[i] # p[j]
        /\ \A i, j \in 1..Len(table) : i < j =>
              \/ table[p[i]].use_count > table[p[j]].use_count
              \/ table[p[i]].use_count = table[p[j]].use_count /\ p[i] < p[j]

\* SELECT ... ORDER BY use_count DESC, fetchall()
get_all(table) == [i \in 1..Len(table) |-> table[IndexOrder(table)[i]]]

ReadResult(store, table, rows) == [store |-> store, table |-> table, rows |-> rows]

InitRead == lastRead = ReadResult("-", <<>>, <<>>)

InitStore ==
    /\ InitRead
    /\ styles = <<>>
    /\ memories = <<>>
    /\ nextId = 1
    /\ clock = 1
    /\ calls = [p \in Callers |-> IdleCall]
    /\ log = <<>>
    /\ nops = 0

(***************************************************************************)
(* Sequential use: each call runs from start to return with no other call  *)
(* in between.                                                             *)
(***************************************************************************)
\* UserStyleStorage.add(text)
StyleAdd(text) ==
    /\ nops < MaxOps
    /\ LET row == SelectByKey(styles, StyleKey(text))
       IN /\ styles' = AddWrite(styles, row, "-", "-", text, clock, nextId)
          /\ log' = Append(log, LogEntry("style", "add", StyleKey(text), 0, TRUE,
                                AddReturn(row, "-", "-", text, clock, nextId), 0))
          /\ nextId' = IF row.id = 0 THEN nextId + 1 ELSE nextId
    /\ clock' = clock + 1
    /\ nops' = nops + 1
    /\ UNCHANGED <<memories, calls>>
    /\ UNCHANGED outsideStore

\* ProjectMemoryStorage.add(category, text, subcategory)
MemoryAdd(category, text, subcategory) ==
    /\ nops < MaxOps
    /\ LET row == SelectByKey(memories, MemoryKey(category, text))
       IN /\ memories' = AddWrite(memories, row, category, subcategory, text, clock, nextId)
          /\ log' = Append(log, LogEntry("memory", "add", Key(category, text), 0, TRUE,
                                AddReturn(row, category, subcategory, text, clock, nextId), 0))
          /\ nextId' = IF row.id = 0 THEN nextId + 1 ELSE nextId
    /\ clock' = clock + 1
    /\ nops' = nops + 1
    /\ UNCHANGED <<styles, calls>>
    /\ UNCHANGED outsideStore

\* the key of the row with this id, or of no row
KeyOfId(table, id) ==
    IF \E i \in 1..Len(table) : table[i].id = id
    THEN KeyOf(table[CHOOSE i \in 1..Len(table) : table[i].id = id])
    ELSE KeyOf(NoRow)

\* delete returns cursor.rowcount > 0
Deleted(table, id) == \E i \in 1..Len(table) : table[i].id = id

\* UserStyleStorage.delete(style_id)
StyleDelete(id) ==
    /\ nops < MaxOps
    /\ styles' = DeleteById(styles, id)
    /\ log' = Append(log, LogEntry("style", "delete", KeyOfId(styles, id), id, TRUE,
                          NoRow, IF Deleted(styles, id) THEN id ELSE 0))
    /\ nops' = nops + 1
    /\ UNCHANGED <<memories, nextId, clock, calls>>
    /\ UNCHANGED outsideStore

\* ProjectMemoryStorage.delete(memory_id)
MemoryDelete(id) ==
    /\ nops < MaxOps
    /\ memories' = DeleteById(memories, id)
    /\ log' = Append(log, LogEntry("memory", "delete", KeyOfId(memories, id), id, TRUE,
                          NoRow, IF Deleted(memories, id) THEN id ELSE 0))
    /\ nops' = nops + 1
    /\ UNCHANGED <<styles, nextId, clock, calls>>
    /\ UNCHANGED outsideStore

\* UserStyleStorage.get_all()
StyleGetAll ==
    /\ lastRead' = ReadResult("style", styles, get_all(styles))
    /\ UNCHANGED outsideRead

\* ProjectMemoryStorage.get_all()
MemoryGetAll ==
    /\ lastRead' = ReadResult("memory", memories, get_all(memories))
    /\ UNCHANGED outsideRead

\* the ids a caller can pass to delete: every id handed out, and one that was not
SomeIds == 1..nextId

NextStore ==
    \/ StyleGetAll
    \/ MemoryGetAll
    \/ \E t \in Texts : StyleAdd(t)
    \/ \E c \in Categories, t \in Texts, sc \in Subcategories : MemoryAdd(c, t, sc)
    \/ \E id \in SomeIds : StyleDelete(id)
    \/ \E id \in SomeIds : MemoryDelete(id)

(***************************************************************************)
(* Overlapping use: several callers (threads or processes, each with its   *)
(* own connection to the database file) run add; their SELECT and write    *)
(* steps interleave.  delete is one statement and one commit: one step.    *)
(***************************************************************************)
\* add is entered: now = _now_iso()
BeginStyleAdd(p, text) ==
    /\ nops < MaxOps
    /\ calls[p].op = "idle"
    /\ calls' = [calls EXCEPT ![p] = Call("add_style", "select", "-", "-", text, clock, NoRow)]
    /\ clock' = clock + 1
    /\ nops' = nops + 1
    /\ UNCHANGED <<styles, memories, nextId, log>>
    /\ UNCHANGED outsideStore

BeginMemoryAdd(p, category, text, subcategory) ==
    /\ nops < MaxOps
    /\ calls[p].op = "idle"
    /\ calls' = [calls EXCEPT ![p] =
                    Call("add_memory", "select", category, subcategory, text, clock, NoRow)]
    /\ clock' = clock + 1
    /\ nops' = nops + 1
    /\ UNCHANGED <<styles, memories, nextId, log>>
    /\ UNCHANGED outsideStore

\* the SELECT of add and its fetchone
AddSelect(p) ==
    /\ calls[p].stage = "select"
    /\ LET c == calls[p]
           row == IF c.op = "add_style"
                  THEN SelectByKey(styles, StyleKey(c.text))
                  ELSE SelectByKey(memories, MemoryKey(c.category, c.text))
       IN calls' = [calls EXCEPT ![p] = [c EXCEPT !.stage = "write", !.row = row]]
    /\ UNCHANGED <<styles, memories, nextId, clock, log, nops>>
    /\ UNCHANGED outsideStore

\* the UPDATE or INSERT of add with the row the SELECT gave, the commit and
\* the return; the INSERT of a stored style text raises IntegrityError, the
\* with block rolls back and add raises
AddWriteCommit(p) ==
    /\ calls[p].stage = "write"
    /\ LET c == calls[p]
           ret == AddReturn(c.row, c.category, c.subcategory, c.text, c.now, nextId)
       IN IF c.op = "add_style"
          THEN IF c.row.id = 0 /\ StyleInsertConflicts(styles, c.text)
               THEN /\ log' = Append(log, LogEntry("style", "add", StyleKey(c.text),
                                                   0, FALSE, NoRow, 0))
                    /\ UNCHANGED <<styles, memories>>
               ELSE /\ styles' = AddWrite(styles, c.row, "-", "-", c.text, c.now, nextId)
                    /\ log' = Append(log, LogEntry("style", "add", StyleKey(c.text),
                                                   0, TRUE, ret, 0))
                    /\ UNCHANGED memories
          ELSE /\ memories' = AddWrite(memories, c.row, c.category, c.subcategory,
                                       c.text, c.now, nextId)
               /\ log' = Append(log, LogEntry("memory", "add", Key(c.category, c.text),
                                              0, TRUE, ret, 0))
               /\ UNCHANGED styles
    /\ nextId' = IF calls[p].row.id = 0 THEN nextId + 1 ELSE nextId
    /\ calls' = [calls EXCEPT ![p] = IdleCall]
    /\ UNCHANGED <<clock, nops>>
    /\ UNCHANGED outsideStore

NextStoreConc ==
    \/ \E p \in Callers, t \in Texts : BeginStyleAdd(p, t)
    \/ \E p \in Callers, c \in Categories, t \in Texts, sc \in Subcategories :
            BeginMemoryAdd(p, c, t, sc)
    \/ \E p \in Callers : AddSelect(p)
    \/ \E p \in Callers : AddWriteCommit(p)
    \/ \E id \in SomeIds : StyleDelete(id)
    \/ \E id \in SomeIds : MemoryDelete(id)

(***************************************************************************)
(* cache.py.  The cache file is missing, or holds a JSON object (a mapping *)
(* from project root to summary, "none" for a root without entry), or      *)
(* something else: "garbage" (text json.loads rejects), "array" and "null" *)
(* (JSON values that are not objects), "unreadable" (exists() is true,     *)
(* read_text and write_text raise OSError: a directory, or no permission). *)
(***************************************************************************)
Roots == {"r1", "r2"}
Summaries == {"s1", "s2"}

NoEntries == [r \in Roots |-> "none"]

CacheFile(kind, map) == [kind |-> kind, map |-> map]

MissingFile == CacheFile("missing", NoEntries)

\* the contents that are not a mapping from root to summary
DamagedFiles == {CacheFile(k, NoEntries) : k \in {"garbage", "array", "null", "unreadable"}}

\* what a cache function did: the exception it raised ("-" for none), the
\* value it returned ("none" for None), the file it left
CacheResult(raised, ret, file) == [raised |-> raised, ret |-> ret, file |-> file]

\* get_project_summary(project_root)
get_project_summary(file, root) ==
    CASE file.kind = "missing" -> CacheResult("-", "none", file)
      [] file.kind \in {"garbage", "unreadable"} -> CacheResult("-", "none", file)
      [] file.kind \in {"array", "null"} -> CacheResult("AttributeError", "none", file)
      [] OTHER -> CacheResult("-", file.map[root], file)

\* a slip: the entries read from the file are dropped before the new one is set
set_project_summary_DropsOthers(file, root, summary) ==
    CASE file.kind \in {"array", "null"} -> CacheResult("TypeError", "none", file)
      [] file.kind = "unreadable" -> CacheResult("OSError", "none", file)
      [] OTHER -> CacheResult("-", "none",
                              CacheFile("object", [NoEntries EXCEPT ![root] = summary]))

\* set_project_summary(project_root, summary)
set_project_summary(file, root, summary) ==
    LET cache == IF file.kind = "object" THEN file.map ELSE NoEntries
    IN CASE file.kind \in {"array", "null"} -> CacheResult("TypeError", "none", file)
         [] file.kind = "unreadable" -> CacheResult("OSError", "none", file)
         [] OTHER -> CacheResult("-", "none",
                                 CacheFile("object", [cache EXCEPT ![root] = summary]))

\* clear_project_summary(project_root)
clear_project_summary(file, root) ==
    CASE file.kind \in {"missing", "garbage", "unreadable", "array"} ->
              CacheResult("-", "none", file)
      [] file.kind = "null" -> CacheResult("TypeError", "none", file)
      [] OTHER -> CacheResult("-", "none",
                              CacheFile("object", [file.map EXCEPT ![root] = "none"]))

\* one call: the function, its arguments, the file before it, what it did
CacheCall(op, root, summary, before, raised, ret) ==
    [op |-> op, root |-> root, summary |-> summary, before |-> before,
     raised |-> raised, ret |-> ret]

InitCache ==
    /\ cacheFile = MissingFile
    /\ cacheCall = CacheCall("-", "-", "-", MissingFile, "-", "none")

CacheGet(root) ==
    LET r == get_project_summary(cacheFile, root)
    IN /\ cacheCall' = CacheCall("get", root, "-", cacheFile, r.raised, r.ret)
       /\ cacheFile' = r.file
       /\ UNCHANGED outsideCache

CacheSet(root, summary) ==
    LET r == set_project_summary(cacheFile, root, summary)
    IN /\ cacheCall' = CacheCall("set", root, summary, cacheFile, r.raised, r.ret)
       /\ cacheFile' = r.file
       /\ UNCHANGED outsideCache

CacheClear(root) ==
    LET r == clear_project_summary(cacheFile, root)
    IN /\ cacheCall' = CacheCall("clear", root, "-", cacheFile, r.raised, r.ret)
       /\ cacheFile' = r.file
       /\ UNCHANGED outsideCache

\* something outside the program replaces or removes the file
CacheDamage(file) ==
    /\ cacheFile' = file
    /\ cacheCall' = CacheCall("-", "-", "-", file, "-", "none")
    /\ UNCHANGED outsideCache

NextCache ==
    \/ \E r \in Roots : CacheGet(r)
    \/ \E r \in Roots, x \in Summaries : CacheSet(r, x)
    \/ \E r \in Roots : CacheClear(r)
    \/ \E f \in DamagedFiles \cup {MissingFile} : CacheDamage(f)

(***************************************************************************)
(* handlers.py: the helpers of process_episode.  An episode's events are a *)
(* sequence of records; the content_summary of an event is its position in *)
(* the episode (from 1), so that every event can be told from the others.  *)
(* Python indexes from 0: index i of a list is element i + 1 of the        *)
(* sequence; a negative index counts from the end; an index outside        *)
(* -len .. len-1 raises IndexError.                                        *)
(***************************************************************************)
RoleNames == {"user", "assistant", "tool"}

\* the events of an episode whose roles are given
EventsOf(roles) == [i \in 1..Len(roles) |-> [role |-> roles[i], content_summary |-> i]]

\* the role sequences of the episodes of at most MaxEvents events
Episodes == UNION {[1..n -> RoleNames] : n \in 0..MaxEvents}

PyIndexOk(list, i) == -Len(list) <= i /\ i < Len(list)
PyIndex(list, i) == IF i >= 0 THEN list[i + 1] ELSE list[Len(list) + i + 1]

\* list[a:b] for 0 <= a and 0 <= b <= len(list)
PySlice(list, a, b) == SubSeq(list, a + 1, b)

\* [i for i, e in enumerate(events) if e.role == "user"]
RECURSIVE UserIndices(_, _)
UserIndices(events, n) ==
    IF n = 0 THEN <<>>
    ELSE IF events[n].role = "user"
         THEN Append(UserIndices(events, n - 1), n - 1)
         ELSE UserIndices(events, n - 1)

\* a slip: the role test is missing
extract_user_messages_AnyRole(events) ==
    [k \in 1..Len(events) |-> events[k].content_summary]

\* _extract_user_messages(events)
extract_user_messages(events) ==
    LET ui == UserIndices(events, Len(events))
    IN [k \in 1..Len(ui) |-> events[ui[k] + 1].content_summary]

\* f"[{e.role}] {e.content_summary}"
FormatEvent(e) == <<"[", e.role, "]", e.content_summary>>

\* what _get_ai_turns did: the exception it raised ("-" for none), the lines
\* of the string it returned (joined with "\n")
WindowResult(raised, lines) == [raised |-> raised, lines |-> lines]

\* the index of the first event of the window
StartEventIdx(user_indices, trigger_index) ==
    LET start_turn == IF trigger_index - 3 > 0 THEN trigger_index - 3 ELSE 0
    IN IF start_turn > 0 THEN user_indices[start_turn + 1] ELSE 0

\* _get_ai_turns(events, trigger_index)
get_ai_turns(events, trigger_index) ==
    LET user_indices == UserIndices(events, Len(events))
    IN IF trigger_index >= Len(user_indices) THEN WindowResult("-", <<>>)
       ELSE IF ~PyIndexOk(user_indices, trigger_index)
            THEN WindowResult("IndexError", <<>>)
            ELSE LET trigger_event_idx == PyIndex(user_indices, trigger_index)
                     start_event_idx == StartEventIdx(user_indices, trigger_index)
                     ai_turn_events == PySlice(events, start_event_idx, trigger_event_idx)
                 IN WindowResult("-", [i \in 1..Len(ai_turn_events) |->
                                          FormatEvent(ai_turn_events[i])])

WindowCall(events, trigger_index, result) ==
    [events |-> events, trigger_index |-> trigger_index, result |-> result]

NoWindowCall == WindowCall(<<>>, 0, WindowResult("-", <<>>))

InitWindow == window = NoWindowCall

\* one call of _get_ai_turns; the function keeps no state, so a run makes
\* one call
GetAiTurns(roles, trigger_index) ==
    /\ window = NoWindowCall
    /\ window' = WindowCall(EventsOf(roles), trigger_index,
                            get_ai_turns(EventsOf(roles), trigger_index))
    /\ UNCHANGED outsideWindow

NextWindow == \E roles \in Episodes, t \in -1..MaxEvents : GetAiTurns(roles, t)

(***************************************************************************)
(* handlers.py: handle_process_episode.  The call waits at its three await *)
(* points (scan, summarize, extract); what lies between two of them runs   *)
(* as one step.  The scanner, the summarizer and the extractor are         *)
(* capabilities outside the model: a call of one is an entry of trace, its *)
(* answer an input of the step that resumes the handler.  The stores are   *)
(* the tables of storage.py, the summary cache the file of cache.py, the   *)
(* sync sync_user_styles of style_syncer.py on the files it finds.         *)
(***************************************************************************)
\* request.project_root: the project whose store is memories
EpisodeRoot == "r1"

\* the role sequences of the episodes passed to process_episode
HandledEpisodes == {<<"assistant">>, <<"user">>, <<"assistant", "user", "tool", "user">>}

\* UserStyleOp / ProjectMemoryOp; text "" is a missing or empty text,
\* target_id 0 a missing target_id, category "none" a missing category (None);
\* a style op has "-" for the two fields it does not have
Op(op, category, subcategory, text, target_id) ==
    [op |-> op, category |-> category, subcategory |-> subcategory, text |-> text,
     target_id |-> target_id]

NoOp == Op("-", "-", "-", "", 0)

\* what the scan answered: it raised, or has_patterns and indices
ScanOutput(raised, has_patterns, indices) ==
    [raised |-> raised, has_patterns |-> has_patterns, indices |-> indices]

ScanOutputs ==
    {ScanOutput(TRUE, FALSE, <<>>), ScanOutput(FALSE, FALSE, <<>>),
     ScanOutput(FALSE, TRUE, <<>>), ScanOutput(FALSE, TRUE, <<0>>),
     ScanOutput(FALSE, TRUE, <<0, 1>>), ScanOutput(FALSE, TRUE, <<5, -1>>),
     ScanOutput(FALSE, TRUE, <<-3>>)}

\* what the summarizer answered: it raised, or a summary ("" for none)
SummarizerOutputs == {"raise", "", "s1"}

\* what one extract call answered: it raised, or ExtractorOutput
ExtractorOutput(raised, user_styles, project_memories) ==
    [raised |-> raised, user_styles |-> user_styles, project_memories |-> project_memories]

ExtractOutputs ==
    {ExtractorOutput(TRUE, <<>>, <<>>),
     ExtractorOutput(FALSE, <<>>, <<>>),
     ExtractorOutput(FALSE, <<Op("ADD", "-", "-", "t1", 0)>>, <<>>),
     ExtractorOutput(FALSE, <<Op("ADD", "-", "-", "", 0)>>,
                            <<Op("ADD", "c1", "alt", "t1", 0)>>),
     ExtractorOutput(FALSE, <<Op("DELETE", "-", "-", "", 1)>>,
                            <<Op("UPDATE", "c1", "main", "t2", 1)>>),
     ExtractorOutput(FALSE, <<>>, <<Op("ADD", "none", "main", "t1", 0),
                                    Op("ADD", "c2", "main", "t2", 0)>>)}

\* how a call ended: kind "return" with ProcessEpisodeResponse's fields, or
\* kind "raise" with the exception; "none" while no call has ended
Result(kind, error, skipped, skip_reason, user_styles, project_memories) ==
    [kind |-> kind, error |-> error, skipped |-> skipped, skip_reason |-> skip_reason,
     user_styles |-> user_styles, project_memories |-> project_memories]

NoResult == Result("none", "-", FALSE, "-", <<>>, <<>>)
Skipped(skip_reason) == Result("return", "-", TRUE, skip_reason, <<>>, <<>>)
Raised(error) == Result("raise", error, FALSE, "-", <<>>, <<>>)

\* one thing the call did outside itself: what ("scan", "style_get_all",
\* "memory_get_all", "cache_get", "summarize", "cache_set", "extract",
\* "style_add", "sync", "memory_add", and "memory_add_failed" for an add
\* that raised); for extract the trigger index, the trigger message and the
\* context; for an add the op it applies
TraceEvent(what, index, message, context, op) ==
    [what |-> what, index |-> index, message |-> message, context |-> context, op |-> op]

Did(what) == TraceEvent(what, 0, 0, <<>>, NoOp)

\* the locals of a call: stage is the await it waits at ("idle": no call);
\* pos is the number of entries of indices the loop has passed
Episode(stage, events, indices, pos, user_styles, project_memories) ==
    [stage |-> stage, events |-> events, indices |-> indices, pos |-> pos,
     user_styles |-> user_styles, project_memories |-> project_memories]

IdleEpisode == Episode("idle", <<>>, <<>>, 0, <<>>, <<>>)

\* the events of the request; the answers of scan, summarizer and extract
\* calls, each oldest first
Inputs(events, scan, summary, extracts) ==
    [events |-> events, scan |-> scan, summary |-> summary, extracts |-> extracts]

InitEpisode ==
    /\ ep = IdleEpisode
    /\ trace = <<>>
    /\ ended = NoResult
    /\ inputs = Inputs(<<>>, <<>>, <<>>, <<>>)
    /\ neps = 0
    /\ synced = <<>>

\* the tables, the id and time sources and the trace while the adds of the
\* persist step run; raised is the exception that ended the step ("-": none),
\* synced the sync calls made
Written(s, m, id, now, tr) ==
    [styles |-> s, memories |-> m, nextId |-> id, clock |-> now, trace |-> tr,
     raised |-> "-", synced |-> <<>>]

\* project_memories.category is NOT NULL (storage.py line 30): the INSERT of
\* add(None, text) raises sqlite3.IntegrityError
InsertFails(store, category) == store = "memory" /\ category = "none"

\* for style in all_user_styles: if style.text: user_storage.add(style.text)
\* for memory in all_project_memories: if memory.text:
\*     project_storage.add(memory.category, memory.text)
RECURSIVE ApplyOps(_, _, _, _)
ApplyOps(store, ops, k, w) ==
    IF k > Len(ops) THEN w
    ELSE LET o == ops[k]
             table == IF store = "style" THEN w.styles ELSE w.memories
             category == IF store = "style" THEN "-" ELSE o.category
             subcategory == IF store = "style" THEN "-" ELSE "main"
             row == SelectByKey(table, IF store = "style" THEN StyleKey(o.text)
                                       ELSE MemoryKey(o.category, o.text))
             written == AddWrite(table, row, category, subcategory, o.text,
                                 w.clock, w.nextId)
             after == [w EXCEPT
                         !.styles = IF store = "style" THEN written ELSE @,
                         !.memories = IF store = "style" THEN @ ELSE written,
                         !.nextId = IF row.id = 0 THEN @ + 1 ELSE @,
                         !.clock = @ + 1,
                         !.trace = Append(@, TraceEvent(IF store = "style"
                                                        THEN "style_add"
                                                        ELSE "memory_add",
                                                        0, 0, <<>>, o))]
             failed == [w EXCEPT !.raised = "IntegrityError",
                                 !.trace = Append(@, TraceEvent("memory_add_failed",
                                                                0, 0, <<>>, o))]
         IN IF o.text = "" THEN ApplyOps(store, ops, k + 1, w)
            ELSE IF row.id = 0 /\ InsertFails(store, o.category) THEN failed
            ELSE ApplyOps(store, ops, k + 1, after)

\* the call ends with res; w is what its writes left
Finish(res, w) ==
    /\ ep' = IdleEpisode
    /\ ended' = res
    /\ trace' = w.trace
    /\ styles' = w.styles
    /\ memories' = w.memories
    /\ nextId' = w.nextId
    /\ clock' = w.clock
    /\ synced' = w.synced

\* style_syncer.py: the targets of sync_user_styles in the order it writes
\* them: ~/.sqrl/personal-style.md, ~/.claude/CLAUDE.md,
\* <project>/.claude/CLAUDE.md, <project>/AGENTS.md
SyncTargets == <<"personal", "claude_global", "claude_project", "agents">>

\* what the file system does with each target: "absent" (exists() is false;
\* personal-style.md is written without that test), "ok", "OSError" (mkdir,
\* read_text or write_text raises it), "UnicodeDecodeError" (read_text of
\* the existing file raises it; personal-style.md is never read)
SyncEnv(personal, claude_global, claude_project, agents) ==
    [personal |-> personal, claude_global |-> claude_global,
     claude_project |-> claude_project, agents |-> agents]

SyncEnvs ==
    {SyncEnv("ok", "ok", "ok", "ok"),
     SyncEnv("ok", "absent", "absent", "absent"),
     SyncEnv("OSError", "ok", "absent", "ok"),
     SyncEnv("ok", "absent", "OSError", "ok"),
     SyncEnv("ok", "absent", "UnicodeDecodeError", "ok")}

\* one sync call: the style texts it wrote, what it met, the entry of its
\* results dict for each target ("True", "False", "-" for no entry), and
\* the exception it raised ("-": it returned results)
SyncCall(style_texts, env, results, raised) ==
    [style_texts |-> style_texts, env |-> env, results |-> results, raised |-> raised]

\* sync_user_styles, lines 73-128: each target is written inside its own
\* try / except OSError; any other exception leaves the function
sync_user_styles(table, env) ==
    LET all_styles == get_all(table)
        style_texts == [i \in 1..Len(all_styles) |-> all_styles[i].text]
        uncaught == {i \in 1..Len(SyncTargets) :
                        env[SyncTargets[i]] = "UnicodeDecodeError"}
        stop == IF uncaught = {} THEN Len(SyncTargets) + 1
                ELSE CHOOSE i \in uncaught : \A j \in uncaught : i <= j
        results == [i \in 1..Len(SyncTargets) |->
                       IF i >= stop THEN "-"
                       ELSE IF env[SyncTargets[i]] = "ok" THEN "True"
                       ELSE IF env[SyncTargets[i]] = "OSError" THEN "False"
                       ELSE "-"]
    IN SyncCall(style_texts, env, results,
                IF uncaught = {} THEN "-" ELSE "UnicodeDecodeError")

\* lines 162-178: the adds of the accumulated memory ops, the response
PersistMemories(e, w1) ==
    LET w2 == IF e.project_memories # <<>>
              THEN ApplyOps("memory", e.project_memories, 1, w1)
              ELSE w1
    IN IF w2.raised # "-"
       THEN Finish(Raised(w2.raised), w2)
       ELSE Finish(Result("return", "-", FALSE, "-", e.user_styles, e.project_memories),
                   w2)

\* the sync call of line 158 after the style adds left ws, and what follows
PersistSync(e, ws) ==
    \E env \in SyncEnvs :
        LET call == sync_user_styles(ws.styles, env)
            w1 == [ws EXCEPT !.trace = Append(@, Did("sync")),
                             !.synced = Append(@, call)]
        IN IF call.raised # "-"
           THEN Finish(Raised(call.raised), w1)
           ELSE PersistMemories(e, w1)

\* the exceptions a capability raises: one without a code attribute, and
\* one that has a code attribute (an openai.APIError has one)
CapabilityErrors == {"Exception", "CodedError"}

\* the awaited capability raised: nothing catches it, the call ends with it
CapabilityRaised ==
    \E err \in CapabilityErrors :
        Finish(Raised(err), Written(styles, memories, nextId, clock, trace))

\* a slip: the sync runs whether or not there are style ops
Persist_AlwaysSyncs(e, tr) ==
    LET w0 == Written(styles, memories, nextId, clock, tr)
        ws == ApplyOps("style", e.user_styles, 1, w0)
    IN PersistSync(e, ws)

\* lines 150-178: the adds of the accumulated ops, the sync, the response
Persist(e, tr) ==
    LET w0 == Written(styles, memories, nextId, clock, tr)
        ws == ApplyOps("style", e.user_styles, 1, w0)
    IN IF e.user_styles # <<>>
       THEN PersistSync(e, ws)
       ELSE PersistMemories(e, w0)

\* lines 129-145 and on: the loop over scanner_output.indices from entry
\* e.pos, up to the next extract call; when no entry is left, the rest of
\* the handler
Continue(e, tr) ==
    LET user_messages == extract_user_messages(e.events)
        rest == {q \in (e.pos + 1)..Len(e.indices) : e.indices[q] < Len(user_messages)}
    IN IF rest = {}
       THEN Persist(e, tr)
       ELSE LET q == CHOOSE x \in rest : \A y \in rest : x <= y
                trigger_index == e.indices[q]
            IN IF ~PyIndexOk(user_messages, trigger_index)
               THEN Finish(Raised("IndexError"),
                           Written(styles, memories, nextId, clock, tr))
               ELSE /\ ep' = [e EXCEPT !.stage = "extract", !.pos = q]
                    /\ trace' = Append(tr,
                          TraceEvent("extract", trigger_index,
                                     PyIndex(user_messages, trigger_index),
                                     get_ai_turns(e.events, trigger_index).lines, NoOp))
                    /\ UNCHANGED <<ended, styles, memories, nextId, clock, synced>>

\* lines 60-82: the call starts and runs up to the scan
EpisodeStart(roles) ==
    /\ ep.stage = "idle"
    /\ neps < MaxEpisodes
    /\ neps' = neps + 1
    /\ inputs' = Inputs(EventsOf(roles), <<>>, <<>>, <<>>)
    /\ synced' = <<>>
    /\ IF extract_user_messages(EventsOf(roles)) = <<>>
       THEN /\ ep' = IdleEpisode
            /\ trace' = <<>>
            /\ ended' = Skipped("No user messages in episode")
       ELSE /\ ep' = Episode("scan", EventsOf(roles), <<>>, 0, <<>>, <<>>)
            /\ trace' = <<Did("scan")>>
            /\ ended' = NoResult
    /\ UNCHANGED <<styles, memories, nextId, clock, cacheFile>>
    /\ UNCHANGED outsideEpisode

\* a slip: the cached summary is not looked at, the summarizer always runs
LoadContext_IgnoresCache(e, tr) ==
    /\ ep' = [e EXCEPT !.stage = "summarize"]
    /\ trace' = tr \o <<Did("style_get_all"), Did("memory_get_all"), Did("cache_get"),
                        Did("summarize")>>
    /\ UNCHANGED <<ended, styles, memories, nextId, clock, synced>>

\* lines 93-121: the stores and the summary cache are read; on a cache hit
\* the call runs on into the extract loop, on a miss up to the summarizer
LoadContext(e, tr) ==
    LET loaded == tr \o <<Did("style_get_all"), Did("memory_get_all"), Did("cache_get")>>
        cached == get_project_summary(cacheFile, EpisodeRoot)
    IN IF cached.raised # "-"
       THEN Finish(Raised(cached.raised), Written(styles, memories, nextId, clock, loaded))
       ELSE IF cached.ret # "none"
       THEN Continue(e, loaded)
       ELSE /\ ep' = [e EXCEPT !.stage = "summarize"]
            /\ trace' = Append(loaded, Did("summarize"))
            /\ UNCHANGED <<ended, styles, memories, nextId, clock, synced>>

\* a slip: the has_patterns test is missing
ScanDone_NoPatternsTest(o) ==
    /\ ep.stage = "scan"
    /\ inputs' = [inputs EXCEPT !.scan = <<o>>]
    /\ UNCHANGED <<neps, cacheFile>>
    /\ UNCHANGED outsideEpisode
    /\ IF o.raised
       THEN CapabilityRaised
       ELSE LoadContext([ep EXCEPT !.indices = o.indices], trace)

\* lines 82-91 and on: the scan has answered
ScanDone(o) ==
    /\ ep.stage = "scan"
    /\ inputs' = [inputs EXCEPT !.scan = <<o>>]
    /\ UNCHANGED <<neps, cacheFile>>
    /\ UNCHANGED outsideEpisode
    /\ IF o.raised
       THEN CapabilityRaised
       ELSE IF ~o.has_patterns
       THEN Finish(Skipped("No behavioral patterns detected"),
                   Written(styles, memories, nextId, clock, trace))
       ELSE LoadContext([ep EXCEPT !.indices = o.indices], trace)

\* lines 118-121 and on: the summarizer has answered
SummarizeDone(summary) ==
    /\ ep.stage = "summarize"
    /\ inputs' = [inputs EXCEPT !.summary = Append(@, summary)]
    /\ UNCHANGED neps
    /\ UNCHANGED outsideEpisode
    /\ IF summary = "raise"
       THEN /\ CapabilityRaised
            /\ UNCHANGED cacheFile
       ELSE IF summary = ""
       THEN /\ Continue(ep, trace)
            /\ UNCHANGED cacheFile
       ELSE LET set == set_project_summary(cacheFile, EpisodeRoot, summary)
                tr == Append(trace, Did("cache_set"))
            IN /\ cacheFile' = set.file
               /\ IF set.raised # "-"
                  THEN Finish(Raised(set.raised),
                              Written(styles, memories, nextId, clock, tr))
                  ELSE Continue(ep, tr)

\* a slip: when an extract call fails, what the earlier ones gave is stored
ExtractDone_PersistsOnFailure(o) ==
    /\ ep.stage = "extract"
    /\ inputs' = [inputs EXCEPT !.extracts = Append(@, o)]
    /\ UNCHANGED <<neps, cacheFile>>
    /\ UNCHANGED outsideEpisode
    /\ IF o.raised
       THEN Persist(ep, trace)
       ELSE Continue([ep EXCEPT !.user_styles = @ \o o.user_styles,
                                !.project_memories = @ \o o.project_memories],
                     trace)

\* a slip: a failed extract call is passed over, the loop goes on
ExtractDone_SwallowsFailure(o) ==
    /\ ep.stage = "extract"
    /\ inputs' = [inputs EXCEPT !.extracts = Append(@, o)]
    /\ UNCHANGED <<neps, cacheFile>>
    /\ UNCHANGED outsideEpisode
    /\ IF o.raised
       THEN Continue(ep, trace)
       ELSE Continue([ep EXCEPT !.user_styles = @ \o o.user_styles,
                                !.project_memories = @ \o o.project_memories],
                     trace)

\* lines 136-148 and on: an extract call has answered
ExtractDone(o) ==
    /\ ep.stage = "extract"
    /\ inputs' = [inputs EXCEPT !.extracts = Append(@, o)]
    /\ UNCHANGED <<neps, cacheFile>>
    /\ UNCHANGED outsideEpisode
    /\ IF o.raised
       THEN CapabilityRaised
       ELSE Continue([ep EXCEPT !.user_styles = @ \o o.user_styles,
                                !.project_memories = @ \o o.project_memories],
                     trace)

NextEpisode ==
    \/ \E roles \in HandledEpisodes : EpisodeStart(roles)
    \/ \E o \in ScanOutputs : ScanDone(o)
    \/ \E x \in SummarizerOutputs : SummarizeDone(x)
    \/ \E o \in ExtractOutputs : ExtractDone(o)

(***************************************************************************)
(* The state after construction, and the specifications: the transport,    *)
(* the storage layer called by one caller at a time and by overlapping     *)
(* callers, the summary cache.                                             *)
(***************************************************************************)
Init == InitIPC /\ InitStore /\ InitCache /\ InitWindow /\ InitEpisode

SpecIPC == Init /\ [][NextIPC]_vars

\* the transport with clients that disconnect and handlers that come to an
\* end: a handler is awaited in the task of its connection, which goes on
\* when the handler has finished
SpecDisconnect ==
    /\ Init /\ [][NextDisconnect]_vars
    /\ \A c \in Conns :
          WF_vars(\E o \in Outcomes, wr \in {"ok", "fail"} : HandlerDone(c, o, wr))

SpecStore == Init /\ [][NextStore]_vars

SpecStoreConc == Init /\ [][NextStoreConc]_vars

SpecCache == Init /\ [][NextCache]_vars

SpecWindow == Init /\ [][NextWindow]_vars

SpecEpisode == Init /\ [][NextEpisode]_vars

(***************************************************************************)
(* Storage claims.                                                         *)
(***************************************************************************)
Table(store) == IF store = "style" THEN styles ELSE memories

\* the rows of a store that have key k
RowsWithKey(store, k) == {i \in 1..Len(Table(store)) : KeyOf(Table(store)[i]) = k}

\* the returned add calls of key k since the last delete that removed a row
\* with that key
AddsSinceDelete(store, k) ==
    LET dels == {i \in 1..Len(log) : /\ log[i].store = store /\ log[i].op = "delete"
                                     /\ log[i].removed # 0 /\ log[i].key = k}
    IN {i \in 1..Len(log) : /\ log[i].store = store /\ log[i].op = "add"
                            /\ log[i].key = k
                            /\ \A d \in dels : d < i}

LoggedKeys(store) == {log[i].key : i \in {j \in 1..Len(log) : log[j].store = store}}

\* C8: after n >= 1 sequential adds of one key with no delete in between, the
\* store holds exactly one row with that key, its use_count is n, and every
\* one of the n calls returned that row's id.
C8_RepeatedAddCounts ==
    \A store \in {"style", "memory"} : \A k \in LoggedKeys(store) :
        LET adds == AddsSinceDelete(store, k)
            rows == RowsWithKey(store, k)
        IN adds # {} =>
            /\ Cardinality(rows) = 1
            /\ \A i \in rows :
                /\ Table(store)[i].use_count = Cardinality(adds)
                /\ \A a \in adds : log[a].ret.id = Table(store)[i].id

\* a memory added twice, after a style was added
C8_Witness ==
    /\ \E i \in 1..Len(memories) :
            /\ memories[i].use_count = 2
            /\ Cardinality(AddsSinceDelete("memory", KeyOf(memories[i]))) = 2
    /\ styles # <<>>

\* C9: with two callers running add with the same key at the same time, no
\* store ever holds two rows with one key (style: text; memory: category +
\* text).
C9_NoDuplicateKey ==
    \A store \in {"style", "memory"} :
        \A i, j \in 1..Len(Table(store)) :
            i # j => KeyOf(Table(store)[i]) # KeyOf(Table(store)[j])

NoDeleteLogged == \A i \in 1..Len(log) : log[i].op # "delete"

AllReturned == \A p \in Callers : calls[p].op = "idle"

\* C10: with no delete, once k overlapping adds of one key have all
\* returned, none of them has failed and the key's single row has
\* use_count = k.
C10_NoLostIncrement ==
    (AllReturned /\ NoDeleteLogged) =>
        \A store \in {"style", "memory"} : \A k \in LoggedKeys(store) :
            LET adds == AddsSinceDelete(store, k)
                rows == RowsWithKey(store, k)
            IN /\ \A a \in adds : log[a].ok
               /\ Cardinality(rows) = 1
               /\ \A i \in rows : Table(store)[i].use_count = Cardinality(adds)

\* the table of a store after the step
TableNext(store) == IF store = "style" THEN styles' ELSE memories'

\* C11: in every state reached by add and delete calls run one after the
\* other, every stored row has use_count >= 1, and a row that is stored before
\* and after a step (same id) has not lost use_count in that step.
C11_UseCountPositiveMonotone ==
    [][\A store \in {"style", "memory"} :
          /\ \A j \in 1..Len(TableNext(store)) : TableNext(store)[j].use_count >= 1
          /\ \A i \in 1..Len(Table(store)) : \A j \in 1..Len(TableNext(store)) :
                Table(store)[i].id = TableNext(store)[j].id =>
                    TableNext(store)[j].use_count >= Table(store)[i].use_count]_vars

\* a row counted up by a repeated add, in a run with a delete call
C11_Witness ==
    /\ \E store \in {"style", "memory"} : \E i \in 1..Len(Table(store)) :
            Table(store)[i].use_count >= 2
    /\ \E i \in 1..Len(log) : log[i].op = "delete"

\* the rows of a table, as a set
RowSet(table) == {table[i] : i \in 1..Len(table)}

\* the log entry a step appended, when it appended one
Appended == Len(log') = Len(log) + 1

\* C12: a delete(id) call with id not stored returns False and leaves both
\* tables as they were; with id stored it returns True, the table loses the
\* one row with that id and keeps every other row as it was, and the other
\* table is as it was.
C12_DeleteFrame ==
    [][(Appended /\ log'[Len(log')].op = "delete") =>
          LET e == log'[Len(log')]
              other == IF e.store = "style" THEN "memory" ELSE "style"
              hit == {r \in RowSet(Table(e.store)) : r.id = e.arg}
          IN /\ TableNext(other) = Table(other)
             /\ IF hit = {}
                THEN e.removed = 0 /\ TableNext(e.store) = Table(e.store)
                ELSE /\ e.removed = e.arg
                     /\ Cardinality(hit) = 1
                     /\ RowSet(TableNext(e.store)) = RowSet(Table(e.store)) \ hit
                     /\ Len(TableNext(e.store)) = Len(Table(e.store)) - 1]_vars

\* a delete that removed one of the two rows of a table; the other row is
\* still stored
C12_Witness ==
    /\ log # <<>>
    /\ log[Len(log)].op = "delete"
    /\ log[Len(log)].removed # 0
    /\ Table(log[Len(log)].store) # <<>>

Fields(r) == <<r.id, r.text, r.category, r.subcategory, r.use_count, r.created_at>>

\* C30: right after an add call has returned, the record it returned and
\* the row stored under its key agree in id, text, category, subcategory,
\* use_count and created_at.
C30_AddReturnsStoredRecord ==
    (log # <<>> /\ log[Len(log)].op = "add" /\ log[Len(log)].ok) =>
        LET call == log[Len(log)]
        IN \E i \in RowsWithKey(call.store, call.key) :
              Fields(Table(call.store)[i]) = Fields(call.ret)

(***************************************************************************)
(* Summary cache claims.  cacheCall is the latest call, cacheFile the file *)
(* it left; what a get would return now is get_project_summary applied to  *)
(* cacheFile.                                                              *)
(***************************************************************************)
HasEntry(file, root) == file.kind = "object" /\ file.map[root] # "none"

\* C18: on a cache file that is missing or holds a mapping: after
\* set(root, X) a get of root returns X and a get of any other root returns
\* what it returned before the set; get of a root without entry returns
\* None; after clear(root) a get of root returns None and a get of any
\* other root returns what it did before; clear of a root without entry
\* leaves the file as it was.  None of the three raises.
C18_CacheAlgebra ==
    LET c == cacheCall
        now(r) == get_project_summary(cacheFile, r)
        was(r) == get_project_summary(c.before, r)
    IN c.before.kind \in {"missing", "object"} =>
        /\ c.op = "set" =>
              /\ c.raised = "-"
              /\ now(c.root).raised = "-" /\ now(c.root).ret = c.summary
              /\ \A r \in Roots \ {c.root} : now(r).ret = was(r).ret
        /\ c.op = "get" =>
              /\ c.raised = "-"
              /\ cacheFile = c.before
              /\ ~HasEntry(c.before, c.root) => c.ret = "none"
        /\ c.op = "clear" =>
              /\ c.raised = "-"
              /\ now(c.root).ret = "none"
              /\ \A r \in Roots \ {c.root} : now(r).ret = was(r).ret
              /\ ~HasEntry(c.before, c.root) => cacheFile = c.before

\* a set of one root on a file that held an entry of the other root
C18_Witness ==
    /\ cacheCall.op = "set"
    /\ \E r \in Roots \ {cacheCall.root} : HasEntry(cacheCall.before, r)

\* C19: on a cache file that holds something other than a mapping, get
\* returns None without raising, and set(root, X) returns without raising
\* and leaves a file from which get(root) returns X.
C19_DamagedFileIsMiss ==
    LET c == cacheCall
        now(r) == get_project_summary(cacheFile, r)
    IN c.before \in DamagedFiles =>
        /\ c.op = "get" => c.raised = "-" /\ c.ret = "none"
        /\ c.op = "set" =>
              /\ c.raised = "-"
              /\ now(c.root).raised = "-" /\ now(c.root).ret = c.summary

(***************************************************************************)
(* Context window claim.                                                   *)
(***************************************************************************)
\* the position (from 1) of the event of user turn k (from 0)
UserTurnPos(events, k) ==
    CHOOSE p \in 1..Len(events) :
        /\ events[p].role = "user"
        /\ Cardinality({q \in 1..(p - 1) : events[q].role = "user"}) = k

UserTurns(events) == Cardinality({q \in 1..Len(events) : events[q].role = "user"})

\* C20: for a trigger index t that names a user turn, the window is the run
\* of events from the event of user turn t - 3 when t >= 3, from the first
\* event of the episode when t < 3, up to the event just before the event
\* of user turn t, in episode order, each with its role label.
C20_WindowFromThirdTurnBack ==
    LET ev == window.events
        t == window.trigger_index
    IN (0 <= t /\ t < UserTurns(ev)) =>
        LET first == IF t >= 3 THEN UserTurnPos(ev, t - 3) ELSE 1
            last == UserTurnPos(ev, t) - 1
        IN /\ window.result.raised = "-"
           /\ Len(window.result.lines) = last - first + 1
           /\ \A i \in 1..(last - first + 1) :
                 window.result.lines[i] = FormatEvent(ev[first + i - 1])

(***************************************************************************)
(* Episode processor claims.                                               *)
(***************************************************************************)
\* the entries of a trace that are calls of the given kinds
Calls(tr, kinds) == SelectSeq(tr, LAMBDA ev : ev.what \in kinds)

StoreWrites == {"style_add", "memory_add"}

\* a step in which a call ends
CallEnds == ep.stage # "idle" /\ ep'.stage = "idle"

\* C14: a process_episode call whose episode has no event of role user
\* returns skipped = true with the reason "No user messages in episode"; it
\* calls no capability, reads and writes no store, and leaves the summary
\* cache file as it was.
C14_NoUserMessagesSkips ==
    [][(neps' = neps + 1 /\ UserTurns(inputs'.events) = 0) =>
          /\ ep'.stage = "idle"
          /\ ended' = Skipped("No user messages in episode")
          /\ trace' = <<>>
          /\ styles' = styles /\ memories' = memories /\ cacheFile' = cacheFile]_vars

\* a call skipped for want of user messages, made when an earlier call has
\* filled the stores and the cache
C14_Witness ==
    /\ ended = Skipped("No user messages in episode")
    /\ UserTurns(inputs.events) = 0 /\ inputs.events # <<>>
    /\ styles # <<>> /\ memories # <<>>
    /\ HasEntry(cacheFile, EpisodeRoot)

\* the scan answered, without raising, that there is no pattern
ScanSaidNothing(in) ==
    in.scan # <<>> /\ ~in.scan[1].raised /\ ~in.scan[1].has_patterns

OnlyEmptyExtractions(in) ==
    /\ in.scan # <<>> /\ ~in.scan[1].raised /\ in.scan[1].has_patterns
    /\ \A q \in 1..Len(in.scan[1].indices) :
            in.scan[1].indices[q] >= -UserTurns(in.events)
    /\ \A q \in 1..Len(in.summary) : in.summary[q] # "raise"
    /\ \A q \in 1..Len(in.extracts) :
            /\ ~in.extracts[q].raised
            /\ in.extracts[q].user_styles = <<>>
            /\ in.extracts[q].project_memories = <<>>

AppliedOps(tr, what) ==
    LET adds == Calls(tr, {what}) IN [q \in 1..Len(adds) |-> adds[q].op]

TargetedOps(res, kind) ==
    {o \in {res.user_styles[q] : q \in 1..Len(res.user_styles)}
            \cup {res.project_memories[q] : q \in 1..Len(res.project_memories)} :
        o.op = kind /\ o.target_id # 0}

RECURSIVE AllMemoryOps(_)
AllMemoryOps(exs) ==
    IF exs = <<>> THEN <<>>
    ELSE Head(exs).project_memories \o AllMemoryOps(Tail(exs))

\* the ops of a list that the persist step has to write: those with a text
WithText(ops) == SelectSeq(ops, LAMBDA o : o.text # "")

\* the ops of the memory adds a call attempted, failed ones included
AttemptedMemoryOps(tr) ==
    LET adds == Calls(tr, {"memory_add", "memory_add_failed"})
    IN [q \in 1..Len(adds) |-> adds[q].op]

Positions(tr, kinds) == {q \in 1..Len(tr) : tr[q].what \in kinds}

SomeCapabilityRaised(in) ==
    \/ in.scan # <<>> /\ in.scan[1].raised
    \/ \E q \in 1..Len(in.summary) : in.summary[q] = "raise"
    \/ \E q \in 1..Len(in.extracts) : in.extracts[q].raised

\* the adds (failed ones included) and the syncs of a trace
WritesAndSyncs(tr) == Positions(tr, StoreWrites \cup {"memory_add_failed", "sync"})

IsValidEnvelope(l) ==
    /\ l.kind = "object"
    /\ l.jsonrpc = "2.0"
    /\ l.mtype = "string"
    /\ l.params \in {"object", "absent"}

\* the id a response to line l has to carry: the line's id, null if it has none
EchoOf(l) == IF l.id = "absent" THEN "null" ELSE l.id

\* line k of connection c has been answered
Answered(c, k) == k <= Len(out[c])

C2_WellFormedIdEchoed ==
    \A c \in Conns : \A k \in 1..Len(out[c]) :
        IsValidEnvelope(consumed[c][k]) => out[c][k].id = EchoOf(consumed[c][k])

C2_Witness ==
    \E c, d \in Conns : \E k \in 1..Len(out[c]), j \in 1..Len(out[d]) :
        /\ IsValidEnvelope(consumed[c][k]) /\ consumed[c][k].id = "7"
        /\ out[c][k].error /\ out[c][k].code = INTERNAL_ERROR /\ out[c][k].id = "7"
        /\ IsValidEnvelope(consumed[d][j]) /\ consumed[d][j].id = "absent"
        /\ out[d][j].id = "null"

\* C3: every response, Invalid Request errors included, carries the id of the
\* request line it answers when that line is a JSON object with an id, and
\* null only when the line supplied no id.
C3_EveryResponseEchoesId ==
    \A c \in Conns : \A k \in 1..Len(out[c]) :
        consumed[c][k].kind = "object" => out[c][k].id = EchoOf(consumed[c][k])

\* C4: a line that is valid JSON of any kind but no valid envelope is answered
\* with -32600 and the connection stays open.
C4_InvalidRequestAnswered ==
    \A c \in Conns : \A k \in 1..Len(consumed[c]) :
        LET l == consumed[c][k]
        IN (l.kind \in {"value", "object"} /\ ~IsValidEnvelope(l) /\ ~iofault[c]) =>
            /\ Answered(c, k)
            /\ out[c][k].error /\ out[c][k].code = -32600
            /\ status[c] = "closed" => eof[c]

\* the responses line l can get
ResponsesTo(l) ==
    LET p == from_json(l)
    IN IF p.exc = "ValueError" THEN {ValueErrorResponse(p)}
       ELSE IF p.exc = "AttributeError" THEN {}
       ELSE IF p.method \notin Registered THEN {MethodNotFoundResponse(p)}
       ELSE {HandlerResponse(p, o) : o \in Outcomes}

\* C5: on a connection every non-empty line gets exactly one response before
\* the next line is read, the k-th response answers the k-th non-empty line,
\* at most one handler is in flight; empty lines and end of stream write
\* nothing and an empty line leaves the connection open.
C5_OneResponsePerLine ==
    \A c \in Conns : ~iofault[c] =>
        /\ Len(out[c]) = Len(consumed[c]) - (IF pc[c] = "handler" THEN 1 ELSE 0)
        /\ \A k \in 1..Len(out[c]) : out[c][k] \in ResponsesTo(consumed[c][k])
        /\ status[c] = "closed" => eof[c]

\* C6: a failed handler call is answered with the failure's own code and
\* message when it carries a code, else with -32603 and a message containing
\* the failure's message; the response is written and the connection goes on
\* reading.
C6_HandlerFailureReported ==
    \A c \in Conns : \A i \in 1..Len(outcomes[c]) :
        LET k == outcomes[c][i].k
            o == outcomes[c][i].o
        IN o.type # "return" =>
            /\ ~iofault[c] => Answered(c, k)
            /\ Answered(c, k) =>
                /\ out[c][k].error
                /\ o.type = "raise_code" =>
                    (out[c][k].code = o.code /\ out[c][k].message = <<o.msg>>)
                /\ o.type = "raise" =>
                    (out[c][k].code = -32603 /\ In(o.msg, out[c][k].message))
            /\ (~iofault[c] /\ k = Len(consumed[c])) =>
                /\ pc[c] = "read"
                /\ status[c] = "closed" => (eof[c] /\ inbox[c] = <<>>)

\* a connection answered a second request after a handler failure
C6_Witness ==
    \E c \in Conns :
        /\ Len(outcomes[c]) >= 1 /\ outcomes[c][1].k = 1
        /\ outcomes[c][1].o.type = "raise"
        /\ Len(out[c]) = 2
        /\ out[c][1].code = INTERNAL_ERROR

\* what the server holds for one connection
ConnState(c) == <<status[c], pc[c], cur[c], out[c], consumed[c], outcomes[c], iofault[c]>>

\* C7: whatever happens on one connection (socket exception, protocol error,
\* handler failure), the listener keeps accepting and no other connection's
\* state, pending requests or responses change.
C7_ConnectionsIsolated ==
    [][/\ listening'
       /\ \A c, d \in Conns :
            (c # d /\ ConnState(c)' # ConnState(c)) =>
                (ConnState(d)' = ConnState(d) /\ inbox'[d] = inbox[d])]_vars

\* one connection died of a socket exception, the other got its response
C7_Witness ==
    \E c, d \in Conns :
        /\ c # d
        /\ iofault[c] /\ status[c] = "closed"
        /\ status[d] = "open" /\ Len(out[d]) = 1 /\ Len(consumed[d]) = 1

(***************************************************************************)
(* The processor behind the transport: what a request that runs            *)
(* process_episode is answered with.                                       *)
(***************************************************************************)
\* the code attribute of a capability's exception that has one
CapabilityCode == 429

\* what the transport sees of a finished call: its result, or its exception
OutcomeOf(res) ==
    IF res.kind = "return" THEN Outcome("return", 0, "a result")
    ELSE IF res.error = "CodedError" THEN Outcome("raise_code", CapabilityCode, res.error)
    ELSE Outcome("raise", 0, res.error)

\* the scan or an extract call of the latest call raised
CapabilityFailed(in) ==
    \/ in.scan # <<>> /\ in.scan[1].raised
    \/ \E q \in 1..Len(in.extracts) : in.extracts[q].raised

InFlightAfterClose(c) == gone[c] = "handler" /\ pc[c] = "handler"

\* C27: when the client closes its socket while a handler is in flight on
\* the connection, the handler is still in flight after the close and stays
\* so until it finishes with an outcome, and it does finish; from the close on no
\* line is read from that connection; the step of the close and the step in
\* which the handler finishes leave the listener and every other
\* connection as they were.
C27_CloseDoesNotCancelHandler ==
    /\ [][\A c \in Conns :
             /\ (gone[c] = "no" /\ gone'[c] = "handler") =>
                   (InFlightAfterClose(c)' /\ cur'[c] = cur[c] /\ status'[c] = "open")
             /\ InFlightAfterClose(c) =>
                   \/ /\ InFlightAfterClose(c)'
                      /\ cur'[c] = cur[c] /\ status'[c] = "open"
                      /\ outcomes'[c] = outcomes[c]
                   \/ /\ pc'[c] = "read"
                      /\ Len(outcomes'[c]) = Len(outcomes[c]) + 1
                      /\ outcomes'[c][Len(outcomes'[c])].k = Len(consumed[c])
             /\ gone[c] = "handler" =>
                  (consumed'[c] = consumed[c] /\ inbox'[c] = inbox[c])
             /\ (gone'[c] # gone[c] \/ (InFlightAfterClose(c) /\ pc'[c] = "read")) =>
                  /\ listening' = listening
                  /\ \A d \in Conns \ {c} :
                        ConnState(d)' = ConnState(d) /\ inbox'[d] = inbox[d]
         ]_vars
    /\ \A c \in Conns :
          InFlightAfterClose(c) ~> (gone[c] = "handler" /\ pc[c] = "read")

\* a handler finished after its client had closed the socket; a request the
\* client had sent before is still unread; the other connection is open
C27_Witness ==
    \E c, d \in Conns :
        /\ gone[c] = "handler" /\ pc[c] = "read"
        /\ Len(outcomes[c]) = 1
        /\ inbox[c] # <<>>
        /\ d # c /\ status[d] = "open"

====
